---- MODULE Spec2Model ----
(***************************************************************************)
(* StudySage Telegram bot (src/src/studysage/bot.py and the earlier        *)
(* variant src/studysage_bot.py): the turn dispatcher, the four content    *)
(* handlers, the button-press handler, the error boundary and the          *)
(* in-memory progress store.                                               *)
(*                                                                         *)
(* A Python str is modelled as its run-length encoding: a sequence of      *)
(* runs [c |-> character, n |-> count >= 1] in which neighbouring runs     *)
(* hold different characters.  Two strings are equal exactly when their    *)
(* encodings are equal, and len, slicing, strip and concatenation are      *)
(* computed on the encoding, so the chunk limit keeps its real value.      *)
(* An optional value (None or a value) is <<>> or <<value>>.               *)
(***************************************************************************)
EXTENDS Integers, Sequences, FiniteSets, TLC

VARIABLES
    genai_client,   \* TRUE: a configured client; FALSE: None (bot.py 30-35)
    user_data,      \* StudySageBot.user_data: user id -> optional record
    fs,             \* temporary files that exist on disk
    update,         \* the update being handled, <<>> between turns
    handler,        \* the callback the dispatcher chose for it
    pc,             \* the position of the handler's coroutine
    ret,            \* where the coroutine goes on after its pending await
    inflight,       \* transport calls started and not yet completed
    calls,          \* this turn's completed external calls, in order
    response,       \* the result of generate_content, <<>> before the call
    plan,           \* the segments the reply loop iterates over
    idx,            \* the loop's position in plan
    path,           \* the temporary file of this turn, if one was created
    user_data0,     \* user_data as it was when the turn began
    store_calls,    \* calls made on the store from outside a turn, in order
    tasks           \* handler tasks running side by side: task -> its frame

vars == <<genai_client, user_data, fs, update, handler, pc, ret, inflight,
          calls, response, plan, idx, path, user_data0, store_calls, tasks>>

(***************************************************************************)
(* Bounds of the model.                                                    *)
(***************************************************************************)
MaxChunks == 2      \* result texts fill up to MaxChunks whole segments + 1
MaxPad == 1         \* leading whitespace of a padded result text
MaxFiles == 1       \* temporary files that may pile up on disk
MaxTime == 1        \* distinct readings of datetime.now()
MaxCalls == 2       \* calls made on the store from outside a turn
MaxTasks == 2       \* handler tasks in flight at the same time

Users == {"u1", "u2"}
Times == 1..MaxTime

(***************************************************************************)
(* Strings.                                                                *)
(***************************************************************************)
Run(c, n) == [c |-> c, n |-> n]

RECURSIVE TLen(_)
TLen(t) == IF t = <<>> THEN 0 ELSE Head(t).n + TLen(Tail(t))

\* a + b
Cat(a, b) ==
    IF a = <<>> THEN b
    ELSE IF b = <<>> THEN a
    ELSE IF a[Len(a)].c = b[1].c
         THEN SubSeq(a, 1, Len(a) - 1)
                \o <<Run(b[1].c, a[Len(a)].n + b[1].n)>> \o Tail(b)
         ELSE a \o b

RECURSIVE Join(_)
Join(segs) == IF segs = <<>> THEN <<>> ELSE Cat(Head(segs), Join(Tail(segs)))

\* t[:k]
RECURSIVE Take(_, _)
Take(t, k) ==
    IF k <= 0 \/ t = <<>> THEN <<>>
    ELSE IF Head(t).n <= k
         THEN Cat(<<Head(t)>>, Take(Tail(t), k - Head(t).n))
         ELSE <<Run(Head(t).c, k)>>

\* t[k:]
RECURSIVE Drop(_, _)
Drop(t, k) ==
    IF k <= 0 \/ t = <<>> THEN t
    ELSE IF Head(t).n <= k
         THEN Drop(Tail(t), k - Head(t).n)
         ELSE <<Run(Head(t).c, Head(t).n - k)>> \o Tail(t)

\* t[i:j] for 0 <= i <= j
Slice(t, i, j) == Take(Drop(t, i), j - i)

IsSpace(c) == c \in {" ", "\n"}

RECURSIVE LStrip(_)
LStrip(t) == IF t # <<>> /\ IsSpace(Head(t).c) THEN LStrip(Tail(t)) ELSE t

RECURSIVE RStrip(_)
RStrip(t) ==
    IF t # <<>> /\ IsSpace(t[Len(t)].c)
    THEN RStrip(SubSeq(t, 1, Len(t) - 1))
    ELSE t

\* str.strip()
Strip(t) == RStrip(LStrip(t))

(***************************************************************************)
(* The response chunker.                                                   *)
(***************************************************************************)
Limit == 4000

\* Mutant of Chunks: each slice stops one character early
ChunksLossy(t) ==
    [k \in 1..((TLen(t) + Limit - 1) \div Limit) |->
        Slice(t, (k - 1) * Limit, (k - 1) * Limit + Limit - 1)]

\* [ai_response[i:i+4000] for i in range(0, len(ai_response), 4000)]
Chunks(t) ==
    [k \in 1..((TLen(t) + Limit - 1) \div Limit) |->
        Slice(t, (k - 1) * Limit, (k - 1) * Limit + Limit)]

\* Mutant of ReplyPlan: the list comprehension without the length test
ReplyPlanAlwaysChunks(ai_response) == Chunks(ai_response)

\* the segments a handler sends for its formatted reply ai_response
ReplyPlan(ai_response) ==
    IF TLen(ai_response) > Limit THEN Chunks(ai_response) ELSE <<ai_response>>

\* "🎙️ **Voice Message Processed:**\n\n": 33 characters, the last two
\* newlines; the 31 before them are one run of a non-space character here.
VoiceHeader == <<Run("h", 31), Run("\n", 2)>>

\* ai_response, from the text of the model's response
Format(h, text) ==
    IF h = "handle_voice" THEN Cat(VoiceHeader, Strip(text)) ELSE Strip(text)

(***************************************************************************)
(* The model's responses.                                                  *)
(***************************************************************************)
Letter(k) == IF k % 3 = 1 THEN "a" ELSE IF k % 3 = 2 THEN "b" ELSE "c"

\* n characters, none of them whitespace: Limit of one letter, then Limit
\* of the next, so that no two segments of a reply are equal
Body(n) ==
    [k \in 1..((n + Limit - 1) \div Limit) |->
        Run(Letter(k), IF n - (k - 1) * Limit < Limit
                       THEN n - (k - 1) * Limit ELSE Limit)]

\* the same between MaxPad spaces and a newline
Padded(n) == Cat(<<Run(" ", MaxPad)>>, Cat(Body(n), <<Run("\n", 1)>>))

BodyLens == {0, 1, Limit - TLen(VoiceHeader) + 1, Limit, Limit + 1,
             MaxChunks * Limit + 1}
PaddedLens == {0, 1, Limit - 1}

ResultTexts == {Body(n) : n \in BodyLens} \cup {Padded(n) : n \in PaddedLens}

\* what generate_content returns: an object whose text is None or a string
Responses == {[text |-> <<>>]} \cup {[text |-> <<t>>] : t \in ResultTexts}

\* `response and response.text`
HasText(r) == r.text # <<>> /\ r.text[1] # <<>>

(***************************************************************************)
(* Updates.  A message text is [slash, word]: "/word" when slash (the text *)
(* begins with a bot command), the plain text word otherwise.  The data of *)
(* a button press is the sequence of its parts between underscores.        *)
(***************************************************************************)
Commands == {"start", "help", "clear", "quiz", "progress", "subjects"}

SizeLimit == 20 * 1024 * 1024

Message(u, text, media, size) ==
    [type |-> "message", user |-> u, text |-> text, media |-> media,
     file_size |-> size, data |-> <<>>, message |-> TRUE]

CallbackQuery(u, data, m) ==
    [type |-> "callback_query", user |-> u, text |-> <<>>, media |-> {},
     file_size |-> <<>>, data |-> data, message |-> m]

Texts == {[slash |-> TRUE, word |-> c] : c \in Commands \cup {"remind"}}
            \cup {[slash |-> FALSE, word |-> "hello"]}

VideoSizes == {<<>>, <<SizeLimit>>, <<SizeLimit + 1>>}

Tokens == {
    <<"ask", "question">>, <<"generate", "quiz">>, <<"show", "progress">>,
    <<"achievements">>, <<"flashcards">>, <<"settings">>, <<"subjects">>,
    <<"analytics">>, <<"dashboard">>, <<"confirm", "clear">>,
    <<"cancel", "clear">>, <<"quiz", "subject", "math">>,
    <<"quiz", "subject", "random">>, <<"quiz", "answer", "A">>,
    <<"difficulty", "hard">>, <<"difficulty", "extreme">>,
    <<"set", "difficulty">> }

Events ==
    {Message(u, <<t>>, {}, <<>>) : u \in Users, t \in Texts}
      \cup {Message(u, <<>>, m, <<1>>) :
                u \in Users, m \in {{"photo"}, {"voice"},
                                    {"photo", "video", "voice"}}}
      \cup {Message(u, <<>>, m, s) :
                u \in Users, m \in {{"video"}, {"video", "voice"}},
                s \in VideoSizes}
      \cup {CallbackQuery(u, d, m) :
                u \in Users, d \in Tokens, m \in BOOLEAN}
      \cup {[type |-> "poll", user |-> u, text |-> <<>>, media |-> {},
             file_size |-> <<>>, data |-> <<>>, message |-> FALSE] :
                u \in Users}

(***************************************************************************)
(* The dispatcher: application.add_handler in registration order; an       *)
(* update goes to the first handler that accepts it.                       *)
(***************************************************************************)
Entry(kind, arg, callback) == [kind |-> kind, arg |-> arg, callback |-> callback]

Registry == <<
    Entry("CommandHandler", "start", "start_command"),
    Entry("CommandHandler", "help", "help_command"),
    Entry("CommandHandler", "clear", "clear_command"),
    Entry("CommandHandler", "quiz", "quiz_command"),
    Entry("CommandHandler", "progress", "progress_command"),
    Entry("CommandHandler", "subjects", "subjects_command"),
    Entry("CallbackQueryHandler", "", "handle_callback"),
    Entry("MessageHandler", "PHOTO", "handle_photo"),
    Entry("MessageHandler", "VIDEO", "handle_video"),
    Entry("MessageHandler", "VOICE", "handle_voice"),
    Entry("MessageHandler", "TEXT & ~COMMAND", "handle_message") >>

Filter(f, ev) ==
    CASE f = "PHOTO" -> "photo" \in ev.media
      [] f = "VIDEO" -> "video" \in ev.media
      [] f = "VOICE" -> "voice" \in ev.media
      [] f = "TEXT & ~COMMAND" -> ev.text # <<>> /\ ~ev.text[1].slash

Accepts(e, ev) ==
    CASE e.kind = "CommandHandler" ->
            /\ ev.type = "message"
            /\ ev.text # <<>>
            /\ ev.text[1].slash
            /\ ev.text[1].word = e.arg
      [] e.kind = "CallbackQueryHandler" -> ev.type = "callback_query"
      [] e.kind = "MessageHandler" -> ev.type = "message" /\ Filter(e.arg, ev)

\* Mutant of Route: the last handler that accepts ev
RouteLastMatch(ev) ==
    LET hits == {i \in 1..Len(Registry) : Accepts(Registry[i], ev)}
    IN  IF hits = {} THEN "none"
        ELSE Registry[CHOOSE i \in hits : \A j \in hits : i >= j].callback

\* the callback of the first handler that accepts ev, "none" when none does
Route(ev) ==
    LET hits == {i \in 1..Len(Registry) : Accepts(Registry[i], ev)}
    IN  IF hits = {} THEN "none"
        ELSE Registry[CHOOSE i \in hits : \A j \in hits : i <= j].callback

ContentHandlers == {"handle_message", "handle_photo", "handle_video", "handle_voice"}
MediaHandlers == {"handle_photo", "handle_video", "handle_voice"}

(***************************************************************************)
(* The progress store.                                                     *)
(***************************************************************************)
ZeroState ==
    [study_streak |-> 0, total_questions |-> 0, correct_answers |-> 0,
     subjects_studied |-> {}, last_activity |-> <<>>, level |-> 1, xp |-> 0,
     preferences |-> [difficulty |-> "medium", reminder_time |-> <<>>,
                      favorite_subjects |-> <<>>]]

\* Mutant of get_user_data: the record is made anew on every call
get_user_data_fresh(store, u) == [store EXCEPT ![u] = <<ZeroState>>]

\* self.user_data after get_user_data(user_id); the record is store[u][1]
get_user_data(store, u) ==
    IF store[u] = <<>> THEN [store EXCEPT ![u] = <<ZeroState>>] ELSE store

\* Mutant of XpGain: a correct answer earns what an attempt earns
XpGainFlat(correct) == IF correct[1] THEN 2 ELSE 2

\* Mutant of XpGain: no partial credit for a wrong answer
XpGainNoPartial(correct) == IF correct[1] THEN 10 ELSE 0

\* data['xp'] += 10 for a correct answer, += 2 for a wrong one
XpGain(correct) == IF correct[1] THEN 10 ELSE 2

\* Mutant of Counted: only wrong answers count as questions
CountedWrongOnly(d, correct) ==
    [d EXCEPT !.total_questions = IF correct[1] THEN @ ELSE @ + 1,
              !.correct_answers = IF correct[1] THEN @ + 1 ELSE @]

\* data['total_questions'] += 1, and data['correct_answers'] += 1 for a
\* correct answer
Counted(d, correct) ==
    [d EXCEPT !.total_questions = @ + 1,
              !.correct_answers = IF correct[1] THEN @ + 1 ELSE @]

\* Mutant of NewLevel: the level is not capped
NewLevelUncapped(xp) == xp \div 100 + 1

\* min(10, data['xp'] // 100 + 1)
NewLevel(xp) == IF xp \div 100 + 1 < 10 THEN xp \div 100 + 1 ELSE 10

\* Mutant of LevelsUp: >= for >
LevelsUpInclusive(new_level, level) == new_level >= level

\* if new_level > data['level']
LevelsUp(new_level, level) == new_level > level

\* Mutant of update_user_stats: all records share one subjects_studied set
update_user_stats_shared(store, u, subject, correct, now) ==
    LET s1 == get_user_data(store, u)
        d1 == [s1[u][1] EXCEPT !.last_activity = <<now>>]
        d3 == IF correct = <<>> THEN d1
              ELSE [Counted(d1, correct) EXCEPT !.xp = @ + XpGain(correct)]
        new_level == NewLevel(d3.xp)
        d4 == IF LevelsUp(new_level, d3.level)
              THEN [d3 EXCEPT !.level = new_level] ELSE d3
        s2 == [s1 EXCEPT ![u] = <<d4>>]
        shared == IF subject # <<>> /\ subject[1] # "" THEN {subject[1]} ELSE {}
        v == CHOOSE w \in Users : w # u
        s3 == [s2 EXCEPT ![u][1].subjects_studied = @ \cup shared]
    IN  [store |-> IF s3[v] = <<>> THEN s3
                   ELSE [s3 EXCEPT ![v][1].subjects_studied = @ \cup shared],
         leveled_up |-> LevelsUp(new_level, d3.level)]

\* self.user_data after update_user_stats(user_id, subject, correct) at
\* time now, and the value returned; subject and correct are optional
update_user_stats(store, u, subject, correct, now) ==
    LET s1 == get_user_data(store, u)
        d1 == [s1[u][1] EXCEPT !.last_activity = <<now>>]
        d2 == IF subject # <<>> /\ subject[1] # ""
              THEN [d1 EXCEPT !.subjects_studied = @ \cup {subject[1]}]
              ELSE d1
        d3 == IF correct = <<>> THEN d2
              ELSE [Counted(d2, correct) EXCEPT !.xp = @ + XpGain(correct)]
        new_level == NewLevel(d3.xp)
        d4 == IF LevelsUp(new_level, d3.level)
              THEN [d3 EXCEPT !.level = new_level] ELSE d3
    IN  [store |-> [s1 EXCEPT ![u] = <<d4>>],
         leveled_up |-> LevelsUp(new_level, d3.level)]

(***************************************************************************)
(* Calls out of the process.  An awaited call is started, and the          *)
(* coroutine is suspended until the call completes or raises; a call of    *)
(* the blocking model client, and a log line, completes within its step.   *)
(***************************************************************************)
Call(api, msg, body) ==
    [api |-> api, msg |-> msg, body |-> body,
     src |-> IF pc = "escape" THEN "error_handler" ELSE handler]

Await(call, ok, exc) ==
    /\ inflight' = <<call>>
    /\ ret' = <<ok, exc>>
    /\ pc' = "await"

Logged(msg) == [call |-> Call("logger.error", msg, <<>>), ok |-> TRUE]

Init ==
    /\ genai_client \in BOOLEAN
    /\ user_data = [u \in Users |-> <<>>]
    /\ fs = {}
    /\ update = <<>>
    /\ handler = "none"
    /\ pc = "idle"
    /\ ret = <<>>
    /\ inflight = <<>>
    /\ calls = <<>>
    /\ response = <<>>
    /\ plan = <<>>
    /\ idx = 1
    /\ path = <<>>
    /\ user_data0 = user_data
    /\ store_calls = <<>>
    /\ tasks = <<>>

\* Application.process_update: one update at a time (concurrent_updates is
\* left off), to the first handler of the registry that accepts it
Dispatch ==
    /\ pc = "idle"
    /\ \E ev \in Events :
        /\ Route(ev) \in MediaHandlers => Cardinality(fs) < MaxFiles
        /\ update' = <<ev>>
        /\ handler' = Route(ev)
        /\ pc' = IF Route(ev) = "none" THEN "done" ELSE "entry"
    /\ UNCHANGED <<genai_client, user_data, fs, ret, inflight, calls,
                   response, plan, idx, path, user_data0, store_calls, tasks>>

\* process_update returns: the coroutine's frame, and with it the record of
\* the turn, is dropped
TurnEnd ==
    /\ pc = "done"
    /\ pc' = "idle"
    /\ update' = <<>>
    /\ handler' = "none"
    /\ ret' = <<>>
    /\ inflight' = <<>>
    /\ calls' = <<>>
    /\ response' = <<>>
    /\ plan' = <<>>
    /\ idx' = 1
    /\ path' = <<>>
    /\ user_data0' = user_data
    /\ UNCHANGED <<genai_client, user_data, fs, store_calls, tasks>>

\* the awaited call completes
AwaitOk ==
    /\ pc = "await"
    /\ \E i \in 1..Len(inflight) :
        /\ calls' = Append(calls, [call |-> inflight[i], ok |-> TRUE])
        /\ inflight' = SubSeq(inflight, 1, i - 1)
                         \o SubSeq(inflight, i + 1, Len(inflight))
    /\ pc' = IF Len(inflight) = 1 THEN ret[1] ELSE "await"
    /\ UNCHANGED <<genai_client, user_data, fs, update, handler, ret,
                   response, plan, idx, path, user_data0, store_calls, tasks>>

\* the awaited call raises (network error, request rejected)
AwaitRaise ==
    /\ pc = "await"
    /\ \E i \in 1..Len(inflight) :
        calls' = Append(calls, [call |-> inflight[i], ok |-> FALSE])
    /\ inflight' = <<>>
    /\ pc' = ret[2]
    /\ UNCHANGED <<genai_client, user_data, fs, update, handler, ret,
                   response, plan, idx, path, user_data0, store_calls, tasks>>

(***************************************************************************)
(* Command handlers: each builds its text and awaits one reply_text.       *)
(***************************************************************************)
Command(h, msg, reads_store) ==
    /\ pc = "entry"
    /\ handler = h
    /\ user_data' = IF reads_store
                    THEN get_user_data(user_data, update[1].user)
                    ELSE user_data
    /\ Await(Call("reply_text", msg, <<>>), "done", "escape")
    /\ UNCHANGED <<genai_client, fs, update, handler, calls, response, plan,
                   idx, path, user_data0, store_calls, tasks>>

start_command == Command("start_command", "welcome", TRUE)
\* Mutant of help_command: the handler looks up the user's record
help_command_reading == Command("help_command", "help", TRUE)

help_command == Command("help_command", "help", FALSE)
clear_command == Command("clear_command", "clear?", FALSE)
quiz_command == Command("quiz_command", "quick quiz", TRUE)
progress_command == Command("progress_command", "quick progress", TRUE)
subjects_command == Command("subjects_command", "quick subjects", TRUE)

(***************************************************************************)
(* The content handlers.  handle_message, handle_photo, handle_video and   *)
(* handle_voice are four copies of one text; each step below is written    *)
(* once, for the handler h that is running.                                *)
(***************************************************************************)
\* where the try block of h begins
FirstStep(h) ==
    CASE h = "handle_message" -> "generate"
      [] h = "handle_video" -> "size"
      [] OTHER -> "get_file"

\* what follows the if/else on the response inside the try block
AfterReply(h) == IF h = "handle_message" THEN "done" ELSE "unlink"

\* Mutant of Guard: the test of genai_client is missing
GuardMissing(h) ==
    /\ pc = "entry"
    /\ handler = h
    /\ Await(Call("send_chat_action", "typing", <<>>), FirstStep(h), "escape")
    /\ UNCHANGED <<genai_client, user_data, fs, update, handler, calls,
                   response, plan, idx, path, user_data0, store_calls, tasks>>

\* if not genai_client: reply and return; else the typing indicator
Guard(h) ==
    /\ pc = "entry"
    /\ handler = h
    /\ IF ~genai_client
       THEN Await(Call("reply_text", "unavailable", <<>>), "done", "escape")
       ELSE Await(Call("send_chat_action", "typing", <<>>), FirstStep(h), "escape")
    /\ UNCHANGED <<genai_client, user_data, fs, update, handler, calls,
                   response, plan, idx, path, user_data0, store_calls, tasks>>

\* Mutant of TooLarge: >= for >
TooLargeInclusive(size) == size >= SizeLimit

\* video.file_size > 20 * 1024 * 1024
TooLarge(size) == size > SizeLimit

\* handle_video's size check; a video without a file_size makes the
\* comparison raise TypeError
SizeGuard(h) ==
    /\ pc = "size"
    /\ handler = h
    /\ IF update[1].file_size = <<>>
       THEN pc' = "except" /\ UNCHANGED <<inflight, ret>>
       ELSE IF TooLarge(update[1].file_size[1])
            THEN Await(Call("reply_text", "too large", <<>>), "done", "except")
            ELSE pc' = "get_file" /\ UNCHANGED <<inflight, ret>>
    /\ UNCHANGED <<genai_client, user_data, fs, update, handler, calls,
                   response, plan, idx, path, user_data0, store_calls, tasks>>

\* download_file: await context.bot.get_file(file_id)
GetFile(h) ==
    /\ pc = "get_file"
    /\ handler = h
    /\ Await(Call("get_file", "", <<>>), "to_drive", "download_except")
    /\ UNCHANGED <<genai_client, user_data, fs, update, handler, calls,
                   response, plan, idx, path, user_data0, store_calls, tasks>>

\* download_file: NamedTemporaryFile(delete=False), then
\* await telegram_file.download_to_drive(temp_file_path)
ToDrive(h) ==
    /\ pc = "to_drive"
    /\ handler = h
    /\ LET name == CHOOSE f \in 1..MaxFiles : f \notin fs
       IN  fs' = fs \cup {name} /\ path' = <<name>>
    /\ Await(Call("download_to_drive", "", <<>>), "upload", "download_except")
    /\ UNCHANGED <<genai_client, user_data, update, handler, calls, response,
                   plan, idx, user_data0, store_calls, tasks>>

\* download_file's except clause: log and raise again
DownloadExcept(h) ==
    /\ pc = "download_except"
    /\ handler = h
    /\ calls' = Append(calls, Logged("Error downloading file"))
    /\ pc' = "except"
    /\ UNCHANGED <<genai_client, user_data, fs, update, handler, ret, inflight,
                   response, plan, idx, path, user_data0, store_calls, tasks>>

\* genai_client.files.upload(file=path): returns or raises
Upload(h) ==
    /\ pc = "upload"
    /\ handler = h
    /\ \E ok \in BOOLEAN :
        /\ calls' = Append(calls, [call |-> Call("files.upload", "", <<>>), ok |-> ok])
        /\ pc' = IF ok THEN "generate" ELSE "except"
    /\ UNCHANGED <<genai_client, user_data, fs, update, handler, ret, inflight,
                   response, plan, idx, path, user_data0, store_calls, tasks>>

\* Mutant of Generate: a call that raised is tried once more
GenerateRetrying(h) ==
    /\ pc = "generate"
    /\ handler = h
    /\ \/ /\ calls' = Append(calls, [call |-> Call("generate_content", "", <<>>),
                                     ok |-> FALSE])
          /\ pc' = IF \E i \in 1..Len(calls) :
                          calls[i].call.api = "generate_content"
                   THEN "except" ELSE "generate"
          /\ UNCHANGED response
       \/ \E r \in Responses :
            /\ calls' = Append(calls, [call |-> Call("generate_content", "", <<>>),
                                       ok |-> TRUE])
            /\ response' = <<r>>
            /\ pc' = "reply"
    /\ UNCHANGED <<genai_client, user_data, fs, update, handler, ret, inflight,
                   plan, idx, path, user_data0, store_calls, tasks>>

\* genai_client.models.generate_content(...): returns a response or raises
Generate(h) ==
    /\ pc = "generate"
    /\ handler = h
    /\ \/ /\ calls' = Append(calls, [call |-> Call("generate_content", "", <<>>),
                                     ok |-> FALSE])
          /\ pc' = "except"
          /\ UNCHANGED response
       \/ \E r \in Responses :
            /\ calls' = Append(calls, [call |-> Call("generate_content", "", <<>>),
                                       ok |-> TRUE])
            /\ response' = <<r>>
            /\ pc' = "reply"
    /\ UNCHANGED <<genai_client, user_data, fs, update, handler, ret, inflight,
                   plan, idx, path, user_data0, store_calls, tasks>>

\* Mutant of Reply: the activity is recorded before the response is looked at
ReplyCountsAttempt(h) ==
    /\ pc = "reply"
    /\ handler = h
    /\ \E now \in Times :
        user_data' = update_user_stats(user_data, update[1].user, <<>>, <<>>, now).store
    /\ IF HasText(response[1])
       THEN /\ plan' = ReplyPlan(Format(h, response[1].text[1]))
            /\ idx' = 1
            /\ pc' = "send"
            /\ UNCHANGED <<inflight, ret>>
       ELSE /\ Await(Call("reply_text", "try again", <<>>), AfterReply(h), "except")
            /\ UNCHANGED <<plan, idx>>
    /\ UNCHANGED <<genai_client, fs, update, handler, calls, response, path,
                   user_data0, store_calls, tasks>>

\* if response and response.text: format and split; else the soft failure
Reply(h) ==
    /\ pc = "reply"
    /\ handler = h
    /\ IF HasText(response[1])
       THEN /\ plan' = ReplyPlan(Format(h, response[1].text[1]))
            /\ idx' = 1
            /\ pc' = "send"
            /\ UNCHANGED <<inflight, ret>>
       ELSE /\ Await(Call("reply_text", "try again", <<>>), AfterReply(h), "except")
            /\ UNCHANGED <<plan, idx>>
    /\ UNCHANGED <<genai_client, user_data, fs, update, handler, calls,
                   response, path, user_data0, store_calls, tasks>>

\* Mutant of NextSends: the remaining sends gathered, all started at once
NextSendsGathered(segs, i) == SubSeq(segs, i, Len(segs))

\* the segments whose send the loop starts when it is at position i:
\* `for chunk in chunks: await update.message.reply_text(chunk)`
NextSends(segs, i) == <<segs[i]>>

\* one iteration of the loop (the else branch is a plan of one segment)
Send(h) ==
    /\ pc = "send"
    /\ handler = h
    /\ idx <= Len(plan)
    /\ LET segs == NextSends(plan, idx)
       IN  /\ inflight' = [k \in 1..Len(segs) |-> Call("reply_text", "segment", segs[k])]
           /\ idx' = idx + Len(segs)
    /\ ret' = <<"send", "except">>
    /\ pc' = "await"
    /\ UNCHANGED <<genai_client, user_data, fs, update, handler, calls,
                   response, plan, path, user_data0, store_calls, tasks>>

\* Mutant of StatsAfterReply: the voice message counts as a correct answer
StatsAfterReplyGraded(h, store, u, now) ==
    IF h = "handle_voice"
    THEN update_user_stats(store, u, <<"Voice">>, <<TRUE>>, now).store
    ELSE store

\* the store after the if branch of h has sent its reply: handle_voice
\* calls update_user_stats(update.effective_user.id)
StatsAfterReply(h, store, u, now) ==
    IF h = "handle_voice"
    THEN update_user_stats(store, u, <<>>, <<>>, now).store
    ELSE store

\* after the last segment
Sent(h) ==
    /\ pc = "send"
    /\ handler = h
    /\ idx > Len(plan)
    /\ \E now \in Times :
        user_data' = StatsAfterReply(h, user_data, update[1].user, now)
    /\ pc' = AfterReply(h)
    /\ UNCHANGED <<genai_client, fs, update, handler, ret, inflight, calls,
                   response, plan, idx, path, user_data0, store_calls, tasks>>

\* try: os.unlink(path) / except: pass, and the handler returns; the file
\* is the process's own, and an unlink that fails is left out
Unlink(h) ==
    /\ pc = "unlink"
    /\ handler = h
    /\ fs' = fs \ {path[1]}
    /\ pc' = "done"
    /\ UNCHANGED <<genai_client, user_data, update, handler, ret, inflight,
                   calls, response, plan, idx, path, user_data0, store_calls, tasks>>

\* except Exception as e: log, apologise
Except(h) ==
    /\ pc = "except"
    /\ handler = h
    /\ calls' = Append(calls, Logged("Error processing"))
    /\ Await(Call("reply_text", "sorry", <<>>), "done", "escape")
    /\ UNCHANGED <<genai_client, user_data, fs, update, handler, response,
                   plan, idx, path, user_data0, store_calls, tasks>>

handle_message ==
    \/ Guard("handle_message")
    \/ Generate("handle_message")
    \/ Reply("handle_message")
    \/ Send("handle_message")
    \/ Sent("handle_message")
    \/ Except("handle_message")

Media(h) ==
    \/ Guard(h)
    \/ GetFile(h)
    \/ ToDrive(h)
    \/ DownloadExcept(h)
    \/ Upload(h)
    \/ Generate(h)
    \/ Reply(h)
    \/ Send(h)
    \/ Sent(h)
    \/ Unlink(h)
    \/ Except(h)

handle_photo == Media("handle_photo")
handle_video == SizeGuard("handle_video") \/ Media("handle_video")
handle_voice == Media("handle_voice")

(***************************************************************************)
(* Button presses.                                                         *)
(***************************************************************************)
\* query.data.startswith(word + "_")
StartsWith(data, word) == Len(data) >= 2 /\ data[1] = word

\* the tokens handle_callback compares query.data with; each edits the
\* message into a menu or a notice
Menus == {
    <<"ask", "question">>, <<"generate", "quiz">>, <<"show", "progress">>,
    <<"achievements">>, <<"flashcards">>, <<"settings">>, <<"subjects">>,
    <<"analytics">>, <<"dashboard">>, <<"confirm", "clear">>,
    <<"cancel", "clear">> }

\* await query.answer()
CallbackAnswer ==
    /\ pc = "entry"
    /\ handler = "handle_callback"
    /\ Await(Call("answer", "", <<>>), "callback", "escape")
    /\ UNCHANGED <<genai_client, user_data, fs, update, handler, calls,
                   response, plan, idx, path, user_data0, store_calls, tasks>>

\* Mutant of CallbackBranch: a press of quiz_answer_ is graded as correct
CallbackBranchGrading ==
    /\ pc = "callback"
    /\ handler = "handle_callback"
    /\ LET data == update[1].data
           store == get_user_data(user_data, update[1].user)
       IN  IF data \in Menus
           THEN /\ user_data' = store
                /\ Await(Call("edit_message_text", "menu", <<>>), "done", "escape")
           ELSE IF StartsWith(data, "quiz")
           THEN /\ user_data' =
                      IF Len(data) >= 3 /\ data[2] = "subject" THEN store
                      ELSE update_user_stats(store, update[1].user, <<>>,
                                             <<TRUE>>, 1).store
                /\ pc' = IF Len(data) >= 3 /\ data[2] = "subject"
                         THEN "quiz_generate" ELSE "done"
                /\ UNCHANGED <<inflight, ret>>
           ELSE IF StartsWith(data, "difficulty")
           THEN /\ user_data' = [store EXCEPT
                        ![update[1].user][1].preferences.difficulty = data[2]]
                /\ Await(Call("edit_message_text", "difficulty set", <<>>),
                         "done", "escape")
           ELSE /\ user_data' = store
                /\ pc' = "done"
                /\ UNCHANGED <<inflight, ret>>
    /\ UNCHANGED <<genai_client, fs, update, handler, calls, response, plan,
                   idx, path, user_data0, store_calls, tasks>>

\* user_data = self.get_user_data(user_id), then the if/elif chain;
\* handle_quiz_answer does nothing unless the data starts with quiz_subject_
CallbackBranch ==
    /\ pc = "callback"
    /\ handler = "handle_callback"
    /\ LET data == update[1].data
           store == get_user_data(user_data, update[1].user)
       IN  IF data \in Menus
           THEN /\ user_data' = store
                /\ Await(Call("edit_message_text", "menu", <<>>), "done", "escape")
           ELSE IF StartsWith(data, "quiz")
           THEN /\ user_data' = store
                /\ pc' = IF Len(data) >= 3 /\ data[2] = "subject"
                         THEN "quiz_generate" ELSE "done"
                /\ UNCHANGED <<inflight, ret>>
           ELSE IF StartsWith(data, "difficulty")
           THEN /\ user_data' = [store EXCEPT
                        ![update[1].user][1].preferences.difficulty = data[2]]
                /\ Await(Call("edit_message_text", "difficulty set", <<>>),
                         "done", "escape")
           ELSE /\ user_data' = store
                /\ pc' = "done"
                /\ UNCHANGED <<inflight, ret>>
    /\ UNCHANGED <<genai_client, fs, update, handler, calls, response, plan,
                   idx, path, user_data0, store_calls, tasks>>

\* generate_quiz_question: the model call inside its try block; with
\* genai_client None the attribute access raises AttributeError
QuizGenerate ==
    /\ pc = "quiz_generate"
    /\ handler = "handle_callback"
    /\ IF ~genai_client
       THEN pc' = "quiz_except" /\ UNCHANGED <<calls, response>>
       ELSE \/ /\ calls' = Append(calls,
                      [call |-> Call("generate_content", "", <<>>), ok |-> FALSE])
               /\ pc' = "quiz_except"
               /\ UNCHANGED response
            \/ \E r \in Responses :
                 /\ calls' = Append(calls,
                        [call |-> Call("generate_content", "", <<>>), ok |-> TRUE])
                 /\ response' = <<r>>
                 /\ pc' = "quiz_reply"
    /\ UNCHANGED <<genai_client, user_data, fs, update, handler, ret, inflight,
                   plan, idx, path, user_data0, store_calls, tasks>>

\* the question with its answer buttons, or the notice of a failed quiz
QuizReply ==
    /\ pc = "quiz_reply"
    /\ handler = "handle_callback"
    /\ Await(Call("edit_message_text",
                  IF HasText(response[1]) THEN "quiz question"
                  ELSE "failed to generate quiz", <<>>),
             "done", "quiz_except")
    /\ UNCHANGED <<genai_client, user_data, fs, update, handler, calls,
                   response, plan, idx, path, user_data0, store_calls, tasks>>

QuizExcept ==
    /\ pc = "quiz_except"
    /\ handler = "handle_callback"
    /\ calls' = Append(calls, Logged("Quiz generation error"))
    /\ Await(Call("edit_message_text", "quiz generation failed", <<>>),
             "done", "escape")
    /\ UNCHANGED <<genai_client, user_data, fs, update, handler, response,
                   plan, idx, path, user_data0, store_calls, tasks>>

handle_callback ==
    \/ CallbackAnswer
    \/ CallbackBranch
    \/ QuizGenerate
    \/ QuizReply
    \/ QuizExcept

(***************************************************************************)
(* The error boundary.  An exception that leaves a handler reaches         *)
(* error_handler; one raised by error_handler itself is logged by the      *)
(* application, which goes on to the next update either way.               *)
(***************************************************************************)
\* Mutant of error_handler: the test of update.effective_message is missing
error_handler_always_replies ==
    /\ pc = "escape"
    /\ calls' = Append(calls, Logged("Update caused error"))
    /\ Await(Call("reply_text", "unexpected error", <<>>), "done", "done")
    /\ UNCHANGED <<genai_client, user_data, fs, update, handler, response,
                   plan, idx, path, user_data0, store_calls, tasks>>

error_handler ==
    /\ pc = "escape"
    /\ calls' = Append(calls, Logged("Update caused error"))
    /\ IF update[1].message
       THEN Await(Call("reply_text", "unexpected error", <<>>), "done", "done")
       ELSE pc' = "done" /\ UNCHANGED <<inflight, ret>>
    /\ UNCHANGED <<genai_client, user_data, fs, update, handler, response,
                   plan, idx, path, user_data0, store_calls, tasks>>

Next ==
    \/ Dispatch
    \/ TurnEnd
    \/ AwaitOk
    \/ AwaitRaise
    \/ start_command
    \/ help_command
    \/ clear_command
    \/ quiz_command
    \/ progress_command
    \/ subjects_command
    \/ handle_message
    \/ handle_photo
    \/ handle_video
    \/ handle_voice
    \/ handle_callback
    \/ error_handler

Spec == Init /\ [][Next]_vars

(***************************************************************************)
(* The progress store on its own.  The registered handlers call            *)
(* update_user_stats without a subject and without a correctness tag       *)
(* only; here get_user_data and update_user_stats are called directly,     *)
(* with every combination of arguments, on stores that earlier calls have  *)
(* left behind.                                                            *)
(***************************************************************************)
\* subject: None, the empty string, a name
Subjects == {<<>>, <<"">>, <<"Math">>}

\* correct: None, True, False
Corrects == {<<>>, <<TRUE>>, <<FALSE>>}

\* the store after n more calls update_user_stats(u, None, correct), one
\* after the other: the first half of them, then the rest on the store
\* they left
RECURSIVE Repeat(_, _, _, _)
Repeat(store, u, correct, n) ==
    IF n = 0 THEN store
    ELSE IF n = 1 THEN update_user_stats(store, u, <<>>, <<correct>>, 1).store
    ELSE CHOOSE s \in {Repeat(half, u, correct, n - n \div 2) :
                          half \in {Repeat(store, u, correct, n \div 2)}} : TRUE

\* the store after user u gave k correct and then j wrong answers
Answered(store, u, k, j) == Repeat(Repeat(store, u, TRUE, k), u, FALSE, j)

\* the histories a run starts from: <<correct answers, wrong answers>>,
\* on both sides of the first level and of the last
Histories == {<<0, 0>>, <<9, 0>>, <<9, 4>>, <<10, 0>>, <<89, 0>>, <<90, 0>>,
              <<99, 0>>}

StoreInit ==
    /\ genai_client = TRUE
    /\ \E u \in Users :
        \E h \in {<<>>} \cup {<<x>> : x \in Histories} :
        \E others \in BOOLEAN :
            LET empty == [v \in Users |-> <<>>]
                mine == IF h = <<>> THEN empty
                        ELSE Answered(empty, u, h[1][1], h[1][2])
                v == CHOOSE w \in Users : w # u
            IN  user_data = IF others THEN Answered(mine, v, 9, 4) ELSE mine
    /\ fs = {}
    /\ update = <<>>
    /\ handler = "none"
    /\ pc = "idle"
    /\ ret = <<>>
    /\ inflight = <<>>
    /\ calls = <<>>
    /\ response = <<>>
    /\ plan = <<>>
    /\ idx = 1
    /\ path = <<>>
    /\ user_data0 = user_data
    /\ store_calls = <<>>
    /\ tasks = <<>>

\* one entry of store_calls: the call, the store it found, the record of
\* its user afterwards (which get_user_data returns) and the value
\* update_user_stats returned
StoreCall(op, u, subject, correct, now, data, leveled_up) ==
    [op |-> op, user |-> u, subject |-> subject, correct |-> correct,
     now |-> now, before |-> user_data, data |-> data,
     leveled_up |-> leveled_up]

\* self.get_user_data(u)
CallGetUserData ==
    /\ Len(store_calls) < MaxCalls
    /\ \E u \in Users :
        LET store == get_user_data(user_data, u)
        IN  /\ user_data' = store
            /\ store_calls' = Append(store_calls,
                    StoreCall("get_user_data", u, <<>>, <<>>, <<>>,
                              store[u][1], <<>>))
    /\ UNCHANGED <<genai_client, fs, update, handler, pc, ret, inflight,
                   calls, response, plan, idx, path, user_data0, tasks>>

\* self.update_user_stats(u, subject, correct)
CallUpdateUserStats ==
    /\ Len(store_calls) < MaxCalls
    /\ \E u \in Users, subject \in Subjects, correct \in Corrects,
          now \in Times :
        LET r == update_user_stats(user_data, u, subject, correct, now)
        IN  /\ user_data' = r.store
            /\ store_calls' = Append(store_calls,
                    StoreCall("update_user_stats", u, subject, correct,
                              <<now>>, r.store[u][1], <<r.leveled_up>>))
    /\ UNCHANGED <<genai_client, fs, update, handler, pc, ret, inflight,
                   calls, response, plan, idx, path, user_data0, tasks>>

StoreNext ==
    \/ CallGetUserData
    \/ CallUpdateUserStats

StoreSpec == StoreInit /\ [][StoreNext]_vars

(***************************************************************************)
(* Handler tasks side by side.  With concurrent updates switched on, the   *)
(* event loop runs a task until it awaits a call of the transport and may  *)
(* then resume any other task.  Each task below is one handler reduced to  *)
(* its awaits and its accesses of the store, in the order of its source;   *)
(* the blocking calls of the model client are inside the steps.  The       *)
(* handlers that never touch the store are left out.  The steps between    *)
(* two awaits are taken one store access at a time, which lets other       *)
(* tasks in more often than the event loop would.  Every access is logged  *)
(* in store_calls.                                                         *)
(***************************************************************************)
Tasks == 1..MaxTasks

IdleTask == [handler |-> "none", user |-> "", data |-> <<>>, pc |-> "idle"]

\* the updates given to the tasks: /progress, button presses, a voice message
TaskEvents ==
    {[handler |-> "progress_command", user |-> u, data |-> <<>>] : u \in Users}
      \cup {[handler |-> "handle_callback", user |-> u, data |-> d] :
                u \in Users, d \in {<<"difficulty", "hard">>,
                                    <<"difficulty", "extreme">>,
                                    <<"quiz", "subject", "math">>}}
      \cup {[handler |-> "handle_voice", user |-> u, data |-> <<>>] : u \in Users}

\* the positions at which a task is suspended in an await
AwaitPoints == {"answer", "send_chat_action", "get_file", "download_to_drive",
                "reply_text", "edit_message_text"}

\* where a handler begins
TaskEntry(h) ==
    CASE h = "progress_command" -> "lookup"
      [] h = "handle_callback" -> "answer"
      [] h = "handle_voice" -> "send_chat_action"

\* where a task goes on when the call it awaits at pc has returned
AfterAwait(h, at) ==
    CASE at = "answer" -> "lookup"
      [] at = "send_chat_action" -> "get_file"
      [] at = "get_file" -> "download_to_drive"
      [] at = "download_to_drive" -> "reply_text"
      [] at = "reply_text" -> IF h = "handle_voice" THEN "stats" ELSE "done"
      [] at = "edit_message_text" -> "done"

\* one entry of store_calls made by task t
TaskCall(t, op, value, now, store) ==
    [op |-> op, task |-> t, user |-> tasks[t].user, value |-> value,
     now |-> now, before |-> user_data, data |-> store[tasks[t].user][1]]

TaskInit ==
    /\ genai_client = TRUE
    /\ user_data = [u \in Users |-> <<>>]
    /\ fs = {}
    /\ update = <<>>
    /\ handler = "none"
    /\ pc = "idle"
    /\ ret = <<>>
    /\ inflight = <<>>
    /\ calls = <<>>
    /\ response = <<>>
    /\ plan = <<>>
    /\ idx = 1
    /\ path = <<>>
    /\ user_data0 = user_data
    /\ store_calls = <<>>
    /\ tasks = [t \in Tasks |-> IdleTask]

\* the application creates a task for an update
TaskStart(t) ==
    /\ tasks[t].pc = "idle"
    /\ \E ev \in TaskEvents :
        tasks' = [tasks EXCEPT ![t] =
                    [handler |-> ev.handler, user |-> ev.user,
                     data |-> ev.data, pc |-> TaskEntry(ev.handler)]]
    /\ UNCHANGED <<genai_client, user_data, fs, update, handler, pc, ret,
                   inflight, calls, response, plan, idx, path, user_data0,
                   store_calls>>

\* the call a task awaits returns and the task is resumed
TaskResume(t) ==
    /\ tasks[t].pc \in AwaitPoints
    /\ tasks' = [tasks EXCEPT ![t].pc = AfterAwait(tasks[t].handler, @)]
    /\ UNCHANGED <<genai_client, user_data, fs, update, handler, pc, ret,
                   inflight, calls, response, plan, idx, path, user_data0,
                   store_calls>>

\* the call a task awaits raises: the handler's except clause, or the
\* error handler, apologises; neither looks at the store
TaskRaise(t) ==
    /\ tasks[t].pc \in AwaitPoints
    /\ tasks' = [tasks EXCEPT ![t].pc = "done"]
    /\ UNCHANGED <<genai_client, user_data, fs, update, handler, pc, ret,
                   inflight, calls, response, plan, idx, path, user_data0,
                   store_calls>>

\* user_data = self.get_user_data(user_id): the task holds the stored
\* record itself, not a copy of it
TaskLookup(t) ==
    /\ tasks[t].pc = "lookup"
    /\ LET store == get_user_data(user_data, tasks[t].user)
       IN  /\ user_data' = store
           /\ store_calls' = Append(store_calls,
                  TaskCall(t, "get_user_data", <<>>, <<>>, store))
    /\ tasks' = [tasks EXCEPT ![t].pc =
                    IF tasks[t].handler = "progress_command" THEN "reply_text"
                    ELSE IF StartsWith(tasks[t].data, "difficulty")
                         THEN "set_difficulty"
                    ELSE "edit_message_text"]
    /\ UNCHANGED <<genai_client, fs, update, handler, pc, ret, inflight,
                   calls, response, plan, idx, path, user_data0>>

\* user_data['preferences']['difficulty'] = difficulty
TaskSetDifficulty(t) ==
    /\ tasks[t].pc = "set_difficulty"
    /\ LET store == [user_data EXCEPT
                        ![tasks[t].user][1].preferences.difficulty =
                            tasks[t].data[2]]
       IN  /\ user_data' = store
           /\ store_calls' = Append(store_calls,
                  TaskCall(t, "set_difficulty", <<tasks[t].data[2]>>, <<>>,
                           store))
    /\ tasks' = [tasks EXCEPT ![t].pc = "edit_message_text"]
    /\ UNCHANGED <<genai_client, fs, update, handler, pc, ret, inflight,
                   calls, response, plan, idx, path, user_data0>>

\* Mutant of TaskStats: the record is read before the task's last await
\* and written back after it
TaskStatsAcrossAwait(t) ==
    /\ tasks[t].pc = "stats"
    /\ \E now \in Times :
        LET read == IF store_calls = <<>> THEN user_data
                    ELSE store_calls[Len(store_calls)].before
            store == [user_data EXCEPT ![tasks[t].user] =
                        update_user_stats(read, tasks[t].user, <<>>, <<>>,
                                          now).store[tasks[t].user]]
        IN  /\ user_data' = store
            /\ store_calls' = Append(store_calls,
                   TaskCall(t, "update_user_stats", <<>>, <<now>>, store))
    /\ tasks' = [tasks EXCEPT ![t].pc = "done"]
    /\ UNCHANGED <<genai_client, fs, update, handler, pc, ret, inflight,
                   calls, response, plan, idx, path, user_data0>>

\* self.update_user_stats(update.effective_user.id), a plain method
\* without an await; the handler then returns
TaskStats(t) ==
    /\ tasks[t].pc = "stats"
    /\ \E now \in Times :
        LET store == update_user_stats(user_data, tasks[t].user, <<>>, <<>>,
                                       now).store
        IN  /\ user_data' = store
            /\ store_calls' = Append(store_calls,
                   TaskCall(t, "update_user_stats", <<>>, <<now>>, store))
    /\ tasks' = [tasks EXCEPT ![t].pc = "done"]
    /\ UNCHANGED <<genai_client, fs, update, handler, pc, ret, inflight,
                   calls, response, plan, idx, path, user_data0>>

TaskNext ==
    \E t \in Tasks :
        \/ TaskStart(t)
        \/ TaskResume(t)
        \/ TaskRaise(t)
        \/ TaskLookup(t)
        \/ TaskSetDifficulty(t)
        \/ TaskStats(t)

TaskSpec == TaskInit /\ [][TaskNext]_vars

(***************************************************************************)
(* Reading the record of a turn.                                           *)
(***************************************************************************)
\* every call of the turn that has been started, completed ones first
Started == [i \in 1..Len(calls) |-> calls[i].call] \o inflight

\* the calls the handler itself made, without those of error_handler
HandlerCalls == SelectSeq(Started, LAMBDA c : c.src = handler)

StartedApis == {Started[i].api : i \in 1..Len(Started)}

\* the reply segments delivered so far, in the order of delivery
SegmentsSent ==
    LET sent == SelectSeq(calls, LAMBDA e : e.call.msg = "segment" /\ e.ok)
    IN  [i \in 1..Len(sent) |-> sent[i].call.body]

\* the reply segments whose send has been started, in the order of starting
SegmentsStarted ==
    LET segs == SelectSeq(Started, LAMBDA c : c.msg = "segment")
    IN  [i \in 1..Len(segs) |-> segs[i].body]

NoCallFailed == \A i \in 1..Len(calls) : calls[i].ok

\* the text of the model's response, when it has one
ResultText == response[1].text[1]

\* a content handler has returned after sending its whole reply
ReplyDelivered ==
    /\ pc = "done"
    /\ handler \in ContentHandlers
    /\ response # <<>>
    /\ HasText(response[1])
    /\ NoCallFailed

(***************************************************************************)
(* C1 (as stated): the segments of a delivered reply concatenate to the    *)
(* text of the model's response, every segment but the last is Limit       *)
(* characters long and the last is between 1 and Limit characters long.    *)
(***************************************************************************)
C1_AsStated ==
    ReplyDelivered =>
        /\ Join(SegmentsSent) = ResultText
        /\ \A i \in 1..(Len(SegmentsSent) - 1) : TLen(SegmentsSent[i]) = Limit
        /\ SegmentsSent # <<>>
        /\ TLen(SegmentsSent[Len(SegmentsSent)]) \in 1..Limit

(***************************************************************************)
(* C1 (amended): the segments sent concatenate to the formatted reply:     *)
(* the response text without its leading and trailing whitespace, after    *)
(* the fixed header in handle_voice.  While the loop runs, and when a send *)
(* fails, they are an initial part of it.  Every segment but the last is   *)
(* Limit characters long; the last is between 1 and Limit characters long, *)
(* except that an empty formatted reply is sent as one empty segment.      *)
(***************************************************************************)
C1_SegmentsRebuildReply ==
    (handler \in ContentHandlers /\ response # <<>> /\ HasText(response[1])) =>
        LET ai == Format(handler, ResultText)
            segs == SegmentsSent
            n == Len(segs)
        IN  /\ Join(segs) = Take(ai, TLen(Join(segs)))
            /\ \A i \in 1..(n - 1) : TLen(segs[i]) = Limit
            /\ n > 0 => TLen(segs[n]) <= Limit
            /\ n > 0 => (TLen(segs[n]) >= 1 \/ (ai = <<>> /\ n = 1))
            /\ ReplyDelivered => (n > 0 /\ Join(segs) = ai)

\* handle_voice delivered header and text in more than MaxChunks segments
C1_Witness ==
    /\ ReplyDelivered
    /\ handler = "handle_voice"
    /\ Len(SegmentsSent) > MaxChunks
    /\ TLen(SegmentsSent[Len(SegmentsSent)]) < Limit

(***************************************************************************)
(* C2 (as stated): a response text shorter than Limit is sent as exactly   *)
(* one segment, equal to the text the chunking step was given.             *)
(***************************************************************************)
C2_AsStated ==
    (ReplyDelivered /\ TLen(ResultText) < Limit) =>
        SegmentsSent = <<Format(handler, ResultText)>>

(***************************************************************************)
(* C2 (amended): a formatted reply of at most Limit characters is sent as  *)
(* exactly one segment equal to it; in handle_message, handle_photo and    *)
(* handle_video that is the case of every response text shorter than       *)
(* Limit, in handle_voice of those at most Limit - 33 characters long      *)
(* once stripped.                                                          *)
(***************************************************************************)
C2_ShortReplyIsOneSegment ==
    ReplyDelivered =>
        /\ TLen(Format(handler, ResultText)) <= Limit
              => SegmentsSent = <<Format(handler, ResultText)>>
        /\ (handler # "handle_voice" /\ TLen(ResultText) < Limit)
              => SegmentsSent = <<Strip(ResultText)>>
        /\ (handler = "handle_voice"
              /\ TLen(Strip(ResultText)) <= Limit - TLen(VoiceHeader))
              => SegmentsSent = <<Cat(VoiceHeader, Strip(ResultText))>>

\* a padded text shorter than Limit, delivered by handle_photo as one segment
C2_Witness ==
    /\ ReplyDelivered
    /\ handler = "handle_photo"
    /\ ResultText = Padded(1)
    /\ SegmentsSent = <<Body(1)>>

(***************************************************************************)
(* C3: the segments of a reply are sent in index order, one at a time: at  *)
(* most one send is in flight, the sends started so far are the first      *)
(* segments of the plan in their order, and while one is in flight all     *)
(* the earlier ones have completed without raising.                        *)
(***************************************************************************)
C3_SegmentsInOrderOneAtATime ==
    /\ Len(inflight) <= 1
    /\ (handler \in ContentHandlers /\ SegmentsStarted # <<>>) =>
          /\ Len(SegmentsStarted) <= Len(plan)
          /\ SegmentsStarted = SubSeq(plan, 1, Len(SegmentsStarted))
          /\ idx = Len(SegmentsStarted) + 1
    /\ (inflight # <<>> /\ inflight[1].msg = "segment") =>
          \A i \in 1..Len(calls) : calls[i].call.msg = "segment" => calls[i].ok

\* the third segment is in flight after the first two were delivered
C3_Witness ==
    /\ handler = "handle_message"
    /\ Len(inflight) = 1
    /\ inflight[1].msg = "segment"
    /\ Len(SegmentsSent) = 2
    /\ inflight[1].body = plan[3]

(***************************************************************************)
(* C4: an update goes to one handler, the first that matches in the order  *)
(* commands, button press, photo, video, voice, plain text, and to none    *)
(* when nothing matches; a text that is a registered command goes to its   *)
(* command handler and never to handle_message.                            *)
(***************************************************************************)
CommandCallback ==
    [start |-> "start_command", help |-> "help_command",
     clear |-> "clear_command", quiz |-> "quiz_command",
     progress |-> "progress_command", subjects |-> "subjects_command"]

C4_FirstMatchWins ==
    update # <<>> =>
        LET ev == update[1]
            has_text == ev.type = "message" /\ ev.text # <<>>
            command == has_text /\ ev.text[1].slash
        IN  /\ handler =
                 IF command /\ ev.text[1].word \in Commands
                     THEN CommandCallback[ev.text[1].word]
                 ELSE IF ev.type = "callback_query" THEN "handle_callback"
                 ELSE IF ev.type = "message" /\ "photo" \in ev.media THEN "handle_photo"
                 ELSE IF ev.type = "message" /\ "video" \in ev.media THEN "handle_video"
                 ELSE IF ev.type = "message" /\ "voice" \in ev.media THEN "handle_voice"
                 ELSE IF has_text /\ ~command THEN "handle_message"
                 ELSE "none"
            /\ command => handler # "handle_message"
            /\ \A i \in 1..Len(Started) : Started[i].src \in {handler, "error_handler"}
            /\ handler = "none" => (pc = "done" /\ Started = <<>>)

\* /start was answered by start_command
C4_Witness ==
    /\ update # <<>>
    /\ update[1].text = <<[slash |-> TRUE, word |-> "start"]>>
    /\ handler = "start_command"
    /\ pc = "done"
    /\ Len(calls) = 1
    /\ calls[1].call.msg = "welcome"

(***************************************************************************)
(* C5: with no model client, a content handler only sends the fixed        *)
(* "service unavailable" message and returns: no download, no upload, no   *)
(* model call, no typing indicator.                                        *)
(***************************************************************************)
C5_UnconfiguredShortCircuits ==
    (~genai_client /\ handler \in ContentHandlers) =>
        /\ \A i \in 1..Len(HandlerCalls) :
              /\ HandlerCalls[i].api = "reply_text"
              /\ HandlerCalls[i].msg = "unavailable"
        /\ Len(HandlerCalls) = IF pc = "entry" THEN 0 ELSE 1
        /\ StartedApis \cap {"get_file", "download_to_drive", "files.upload",
                             "generate_content", "send_chat_action"} = {}
        /\ fs = {} /\ path = <<>> /\ response = <<>>
        /\ (calls # <<>> /\ calls[1].ok) => pc = "done"

\* handle_video returned after the message, sent for a video
C5_Witness ==
    /\ ~genai_client
    /\ handler = "handle_video"
    /\ pc = "done"
    /\ Len(calls) = 1
    /\ calls[1].call.msg = "unavailable"
    /\ calls[1].ok

(***************************************************************************)
(* C6: every path that would call the model, the quiz question of a        *)
(* quiz_subject_ button press included, tests the client first and with    *)
(* no client replies "service unavailable" instead of trying the call.     *)
(***************************************************************************)
C6_EveryModelPathChecksClient ==
    (/\ ~genai_client
     /\ pc = "done"
     /\ NoCallFailed
     /\ \/ handler \in ContentHandlers
        \/ /\ handler = "handle_callback"
           /\ StartsWith(update[1].data, "quiz")
           /\ update[1].data[2] = "subject")
    =>  /\ \E i \in 1..Len(calls) : calls[i].call.msg = "unavailable"
        /\ \A i \in 1..Len(calls) : calls[i].call.api # "logger.error"

(***************************************************************************)
(* C7: a video of more than 20 MiB gets the size message and no download,  *)
(* upload or model call; a video of at most 20 MiB is not turned away by   *)
(* the size check.                                                         *)
(***************************************************************************)
C7_SizeGuard ==
    (genai_client /\ handler = "handle_video" /\ update[1].file_size # <<>>) =>
        LET size == update[1].file_size[1]
            reached == pc \notin {"entry", "size"} /\ calls # <<>> /\ calls[1].ok
            size_message == \E i \in 1..Len(Started) : Started[i].msg = "too large"
        IN  /\ size > 20 * 1024 * 1024 =>
                /\ StartedApis \cap {"get_file", "download_to_drive",
                                     "files.upload", "generate_content"} = {}
                /\ path = <<>>
                /\ reached => size_message
                /\ (reached /\ NoCallFailed /\ inflight = <<>>) => pc = "done"
            /\ size <= 20 * 1024 * 1024 =>
                /\ ~size_message
                /\ (reached /\ pc = "await" /\ Len(calls) = 1)
                      => inflight[1].api = "get_file"

\* the size message was sent for a video one byte over the limit
C7_Witness ==
    /\ genai_client
    /\ handler = "handle_video"
    /\ update[1].file_size = <<20 * 1024 * 1024 + 1>>
    /\ pc = "done"
    /\ Len(calls) = 2
    /\ calls[2].call.msg = "too large"
    /\ calls[2].ok

(***************************************************************************)
(* C8: when handle_photo, handle_video or handle_voice returns, the        *)
(* temporary file it downloaded has been deleted, on every exit path.      *)
(***************************************************************************)
C8_TempFileDeletedOnEveryPath ==
    (/\ pc = "done"
     /\ handler \in MediaHandlers
     /\ \E i \in 1..Len(calls) :
            calls[i].call.api = "download_to_drive" /\ calls[i].ok)
    => path[1] \notin fs

(***************************************************************************)
(* C9: a turn in which the download or the model call raised, or the       *)
(* response had no text, leaves xp, level, total_questions,                *)
(* correct_answers, subjects_studied and last_activity of every user as    *)
(* they were; a user without a record reads as the zero state.             *)
(***************************************************************************)
Progress(store, u) ==
    LET d == IF store[u] = <<>> THEN ZeroState ELSE store[u][1]
    IN  <<d.xp, d.level, d.total_questions, d.correct_answers,
          d.subjects_studied, d.last_activity>>

FailedTurn ==
    \/ \E i \in 1..Len(calls) :
          /\ calls[i].call.api \in {"get_file", "download_to_drive",
                                    "files.upload", "generate_content"}
          /\ ~calls[i].ok
    \/ response # <<>> /\ ~HasText(response[1])

BoundaryRan ==
    \E i \in 1..Len(calls) :
        /\ calls[i].call.src = "error_handler"
        /\ calls[i].call.api = "logger.error"

ApologyStarted ==
    \E i \in 1..Len(Started) :
        /\ Started[i].src = "error_handler"
        /\ Started[i].api = "reply_text"
        /\ Started[i].msg = "unexpected error"

\* the handler ended by raising: the last call it made raised, and it made
\* no call after it
HandlerRaised ==
    /\ HandlerCalls # <<>>
    /\ \E i \in 1..Len(calls) :
          /\ calls[i].call.src = handler
          /\ ~calls[i].ok
          /\ \A j \in (i + 1)..Len(calls) : calls[j].call.src # handler
    /\ \A i \in 1..Len(inflight) : inflight[i].src # handler

C10_ErrorBoundary ==
    /\ pc \in {"done", "idle"} => (HandlerRaised <=> BoundaryRan)
    /\ BoundaryRan => (ApologyStarted <=> update[1].message)
    /\ BoundaryRan => pc \in {"await", "done"}
    /\ (BoundaryRan /\ inflight = <<>>) => (pc = "done" /\ ENABLED TurnEnd)
    /\ pc = "idle" => ENABLED Dispatch

\* the apology was sent after the typing indicator of handle_message raised
C10_Witness ==
    /\ pc = "done"
    /\ handler = "handle_message"
    /\ BoundaryRan
    /\ Len(calls) = 3
    /\ ~calls[1].ok
    /\ calls[3].call.msg = "unexpected error"
    /\ calls[3].ok

(***************************************************************************)
(* Reading the calls made on the store.                                    *)
(***************************************************************************)
\* the record get_user_data would return for u: the stored one, or the
\* zero state it would create
Record(store, u) == IF store[u] = <<>> THEN ZeroState ELSE store[u][1]

\* the store as call number i left it
StoreAfter(i) ==
    IF i = Len(store_calls) THEN user_data ELSE store_calls[i + 1].before

\* the calls of update_user_stats among store_calls
Updates == {i \in 1..Len(store_calls) : store_calls[i].op = "update_user_stats"}

\* the calls of get_user_data among store_calls
Gets == {i \in 1..Len(store_calls) : store_calls[i].op = "get_user_data"}

\* the level the progress record derives from xp: min(10, xp // 100 + 1)
DerivedLevel(xp) == IF xp \div 100 + 1 > 10 THEN 10 ELSE xp \div 100 + 1

(***************************************************************************)
(* C11: update_user_stats with a subject and correct = True adds exactly   *)
(* 10 to xp, 1 to total_questions and 1 to correct_answers, and adds the   *)
(* subject to subjects_studied; when the subject is in the set already,    *)
(* the size of the set stays as it was.                                    *)
(***************************************************************************)
C11_CorrectAnswerRecorded ==
    \A i \in Updates :
        LET c == store_calls[i]
            b == Record(c.before, c.user)
            a == c.data
        IN  (c.correct = <<TRUE>> /\ c.subject \notin {<<>>, <<"">>}) =>
                /\ a.xp = b.xp + 10
                /\ a.total_questions = b.total_questions + 1
                /\ a.correct_answers = b.correct_answers + 1
                /\ c.subject[1] \in a.subjects_studied
                /\ a.subjects_studied = b.subjects_studied \cup {c.subject[1]}
                /\ c.subject[1] \in b.subjects_studied =>
                      Cardinality(a.subjects_studied)
                          = Cardinality(b.subjects_studied)
                /\ StoreAfter(i)[c.user] = <<a>>

\* the same subject was recorded twice with a correct answer
C11_Witness ==
    /\ Len(store_calls) = 2
    /\ \A i \in 1..2 :
          /\ store_calls[i].op = "update_user_stats"
          /\ store_calls[i].user = "u1"
          /\ store_calls[i].subject = <<"Math">>
          /\ store_calls[i].correct = <<TRUE>>
    /\ store_calls[1].before["u1"] = <<>>
    /\ user_data["u1"][1].xp = 20
    /\ user_data["u1"][1].subjects_studied = {"Math"}

(***************************************************************************)
(* C12: update_user_stats with correct = False adds exactly 2 to xp and 1  *)
(* to total_questions and leaves correct_answers; with correct = None it   *)
(* leaves xp, total_questions and correct_answers; every call sets         *)
(* last_activity to the time of the call.                                  *)
(***************************************************************************)
C12_WrongAndUntaggedRecorded ==
    \A i \in Updates :
        LET c == store_calls[i]
            b == Record(c.before, c.user)
            a == c.data
        IN  /\ c.correct = <<FALSE>> =>
                /\ a.xp = b.xp + 2
                /\ a.total_questions = b.total_questions + 1
                /\ a.correct_answers = b.correct_answers
            /\ c.correct = <<>> =>
                /\ a.xp = b.xp
                /\ a.total_questions = b.total_questions
                /\ a.correct_answers = b.correct_answers
            /\ a.last_activity = c.now
            /\ c.now \in {<<t>> : t \in Times}

\* a wrong answer, then a call without a tag, for a user without a record
C12_Witness ==
    /\ Len(store_calls) = 2
    /\ store_calls[1].op = "update_user_stats"
    /\ store_calls[1].correct = <<FALSE>>
    /\ store_calls[1].before["u2"] = <<>>
    /\ store_calls[1].user = "u2"
    /\ store_calls[2].op = "update_user_stats"
    /\ store_calls[2].correct = <<>>
    /\ store_calls[2].user = "u2"
    /\ user_data["u2"][1].xp = 2
    /\ user_data["u2"][1].total_questions = 1
    /\ user_data["u2"][1].last_activity # <<>>

(***************************************************************************)
(* C13: update_user_stats returns True exactly when the level derived      *)
(* from xp after the change is greater than the level before it, and then  *)
(* stores that level.  From xp = 95 a gain of 10 returns True with level   *)
(* 2; from xp = 100 a gain of 2 returns False with level 2; at level 10    *)
(* it never returns True.  xp is even in every record the store can hold,  *)
(* so the case xp = 95 is computed on a record made for it.                *)
(***************************************************************************)
C13_LevelUpReported ==
    /\ \A i \in Updates :
          LET c == store_calls[i]
              b == Record(c.before, c.user)
              a == c.data
          IN  /\ c.leveled_up = <<DerivedLevel(a.xp) > b.level>>
              /\ c.leveled_up = <<TRUE>> => a.level = DerivedLevel(a.xp)
              /\ c.leveled_up = <<FALSE>> => a.level = b.level
              /\ b.level = 10 => c.leveled_up = <<FALSE>>
              /\ (b.xp = 100 /\ c.correct = <<FALSE>>) =>
                    (c.leveled_up = <<FALSE>> /\ a.level = 2 /\ a.xp = 102)
    /\ LET at95 == [u \in Users |-> <<[ZeroState EXCEPT !.xp = 95]>>]
           r == update_user_stats(at95, "u1", <<>>, <<TRUE>>, 1)
       IN  /\ r.leveled_up
           /\ r.store["u1"][1].level = 2
           /\ r.store["u1"][1].xp = 105

\* level 10 was reached by a call that returned True, and the next correct
\* answer of the same user returned False
C13_Witness ==
    /\ Len(store_calls) = 2
    /\ store_calls[1].op = "update_user_stats"
    /\ store_calls[1].leveled_up = <<TRUE>>
    /\ store_calls[1].data.level = 10
    /\ store_calls[2].op = "update_user_stats"
    /\ store_calls[2].user = store_calls[1].user
    /\ store_calls[2].correct = <<TRUE>>
    /\ store_calls[2].leveled_up = <<FALSE>>
    /\ store_calls[2].data.xp = 910

(***************************************************************************)
(* C14: in every state of the store, the level of every record is          *)
(* min(10, xp // 100 + 1), after any sequence of get_user_data and         *)
(* update_user_stats calls.                                                *)
(***************************************************************************)
C14_LevelDerivedFromXp ==
    \A u \in Users :
        user_data[u] # <<>> =>
            user_data[u][1].level = DerivedLevel(user_data[u][1].xp)

\* a call took xp to 1000, where xp // 100 + 1 is 11, and the level is 10
C14_Witness ==
    /\ store_calls # <<>>
    /\ \E u \in Users :
          /\ user_data[u] # <<>>
          /\ user_data[u][1].xp = 1000
          /\ user_data[u][1].level = 10
          /\ store_calls[Len(store_calls)].user = u
          /\ Record(store_calls[Len(store_calls)].before, u).xp = 990

(***************************************************************************)
(* C15: in every state, every record has xp >= 0, 1 <= level <= 10,        *)
(* total_questions >= 0, correct_answers >= 0 and                          *)
(* correct_answers <= total_questions.                                     *)
(***************************************************************************)
C15_RecordRanges ==
    \A u \in Users :
        user_data[u] # <<>> =>
            LET d == user_data[u][1]
            IN  /\ d.xp \in Nat
                /\ d.level \in 1..10
                /\ d.total_questions \in Nat
                /\ d.correct_answers \in Nat
                /\ d.correct_answers <= d.total_questions

\* after a correct answer, a record at level 10 with as many correct
\* answers as questions
C15_Witness ==
    /\ store_calls # <<>>
    /\ LET c == store_calls[Len(store_calls)]
       IN  /\ c.op = "update_user_stats"
           /\ c.correct = <<TRUE>>
           /\ user_data[c.user][1].level = 10
           /\ user_data[c.user][1].correct_answers
                 = user_data[c.user][1].total_questions
           /\ user_data[c.user][1].total_questions > 0

(***************************************************************************)
(* C16: get_user_data called for a user without a record creates the zero  *)
(* record (xp 0, level 1, streak 0, no questions, no subjects, no          *)
(* last_activity, difficulty medium) and returns it; called for a user     *)
(* with a record it returns that record and leaves the store as it was,    *)
(* so a second call right after the first returns an equal record.         *)
(***************************************************************************)
C16_GetUserDataIdempotent ==
    \A i \in Gets :
        LET c == store_calls[i]
        IN  /\ c.before[c.user] = <<>> =>
                /\ c.data.xp = 0
                /\ c.data.level = 1
                /\ c.data.study_streak = 0
                /\ c.data.total_questions = 0
                /\ c.data.correct_answers = 0
                /\ c.data.subjects_studied = {}
                /\ c.data.last_activity = <<>>
                /\ c.data.preferences.difficulty = "medium"
            /\ c.before[c.user] # <<>> =>
                /\ c.data = c.before[c.user][1]
                /\ StoreAfter(i) = c.before
            /\ StoreAfter(i)[c.user] = <<c.data>>
            /\ \A v \in Users \ {c.user} : StoreAfter(i)[v] = c.before[v]
            /\ (i + 1 \in Gets /\ store_calls[i + 1].user = c.user) =>
                /\ store_calls[i + 1].data = c.data
                /\ StoreAfter(i + 1) = StoreAfter(i)

\* two calls in a row for a user who had no record
C16_Witness ==
    /\ Len(store_calls) = 2
    /\ Gets = {1, 2}
    /\ store_calls[1].user = "u1"
    /\ store_calls[2].user = "u1"
    /\ store_calls[1].before["u1"] = <<>>
    /\ user_data["u1"] = <<ZeroState>>

(***************************************************************************)
(* C17: in every turn with a model call the typing indicator was sent      *)
(* before the call, and a typing indicator that cannot be sent is          *)
(* ignored: the handler goes on to the model call.                         *)
(***************************************************************************)
C17_TypingBeforeModelCallFailureIgnored ==
    /\ \A i \in 1..Len(calls) :
          calls[i].call.api = "generate_content" =>
              \E j \in 1..(i - 1) : calls[j].call.api = "send_chat_action"
    /\ (/\ pc = "done"
        /\ \E j \in 1..Len(calls) :
              calls[j].call.api = "send_chat_action" /\ ~calls[j].ok)
       => \E i \in 1..Len(calls) : calls[i].call.api = "generate_content"

(***************************************************************************)
(* C18: when generate_content returns a response whose text is None,       *)
(* empty, or empty once stripped, the content handler sends the "try       *)
(* again" message, sends no segment of a reply and does not enter its      *)
(* except clause.                                                          *)
(***************************************************************************)
C18_EmptyTextIsSoftFailure ==
    (/\ handler \in ContentHandlers
     /\ response # <<>>
     /\ \/ response[1].text = <<>>
        \/ Strip(response[1].text[1]) = <<>>)
    =>  /\ SegmentsStarted = <<>>
        /\ pc \notin {"generate", "reply", "send"} =>
              \E i \in 1..Len(Started) : Started[i].msg = "try again"
        /\ (\A i \in 1..Len(calls) : calls[i].call.msg = "try again" => calls[i].ok)
              => /\ pc # "except"
                 /\ \A i \in 1..Len(Started) : Started[i].msg # "sorry"

(***************************************************************************)
(* C19: when generate_content raises, the handler catches the exception,   *)
(* logs it and sends one apology whose text is fixed; it makes no further  *)
(* model call, and no turn makes more than one.                            *)
(***************************************************************************)
ModelCalls == {i \in 1..Len(calls) : calls[i].call.api = "generate_content"}

\* the apologies of the handlers' except clauses that were started
Apologies ==
    SelectSeq(Started, LAMBDA c : c.msg \in {"sorry", "quiz generation failed"})

C19_ModelFailureCaughtOnce ==
    /\ Cardinality(ModelCalls) <= 1
    /\ \A i \in ModelCalls :
          ~calls[i].ok =>
              /\ i = Len(calls) => pc \in {"except", "quiz_except"}
              /\ i < Len(calls) =>
                    /\ calls[i + 1].call.api = "logger.error"
                    /\ calls[i + 1].call.src = handler
                    /\ Len(Apologies) = 1
                    /\ Apologies[1].src = handler
                    /\ Apologies[1].api \in {"reply_text", "edit_message_text"}
                    /\ Apologies[1].body = <<>>
                    /\ \A j \in (i + 2)..Len(calls) :
                          calls[j].call.src = handler =>
                              calls[j].call = Apologies[1]
                    /\ \A j \in 1..Len(inflight) :
                          inflight[j].src = handler => inflight[j] = Apologies[1]
                    /\ (pc = "done" /\ calls[i + 2].ok) => ~BoundaryRan

\* handle_photo returned after the model call raised and the apology was sent
C19_Witness ==
    /\ pc = "done"
    /\ handler = "handle_photo"
    /\ ModelCalls # {}
    /\ \A i \in ModelCalls : ~calls[i].ok
    /\ calls[Len(calls)].call.msg = "sorry"
    /\ calls[Len(calls)].ok
    /\ ~BoundaryRan

(***************************************************************************)
(* C20 (as stated): after a user's first event of any kind has been        *)
(* handled, the store holds a record for that user.                        *)
(***************************************************************************)
C20_AsStated ==
    (pc = "done" /\ update # <<>>) => user_data[update[1].user] # <<>>

(***************************************************************************)
(* C20 (amended): a record is created by the first turn of the user in     *)
(* which a handler looks it up: start_command, quiz_command,               *)
(* progress_command, subjects_command, a button press once it has been     *)
(* answered, and handle_voice once the whole reply has been sent.  Every   *)
(* other turn leaves the store without a record for a user who had none.   *)
(* The store holds at most one record for a user, and a turn touches no    *)
(* other user's entry.                                                     *)
(***************************************************************************)
\* the handler of this turn has looked up the record of its user
LookedUp ==
    \/ /\ handler \in {"start_command", "quiz_command", "progress_command",
                       "subjects_command"}
       /\ pc # "entry"
    \/ /\ handler = "handle_callback"
       /\ calls # <<>>
       /\ calls[1].ok
       /\ pc # "callback"
    \/ /\ handler = "handle_voice"
       /\ pc \in {"unlink", "done"}
       /\ plan # <<>>
       /\ Len(SegmentsSent) = Len(plan)

C20_RecordCreatedOnLookup ==
    /\ \A u \in Users : Len(user_data[u]) <= 1
    /\ update = <<>> => user_data = user_data0
    /\ update # <<>> =>
          \A u \in Users :
              user_data[u] # <<>> <=>
                  \/ user_data0[u] # <<>>
                  \/ u = update[1].user /\ LookedUp

\* handle_message delivered a reply to a user who still has no record,
\* while the other user has one
C20_Witness ==
    /\ ReplyDelivered
    /\ handler = "handle_message"
    /\ update[1].user = "u1"
    /\ user_data["u1"] = <<>>
    /\ user_data["u2"] # <<>>

(***************************************************************************)
(* C21: in every state, the difficulty in every user's preferences is      *)
(* easy, medium or hard: a button press difficulty_<level> stores <level>  *)
(* only when it is one of the three.                                       *)
(***************************************************************************)
C21_DifficultyIsEnum ==
    \A u \in Users :
        user_data[u] # <<>> =>
            user_data[u][1].preferences.difficulty \in {"easy", "medium", "hard"}

(***************************************************************************)
(* C22: a press of quiz_answer_<letter> is answered and nothing else: no   *)
(* field of any record changes, no message is edited and no model call is  *)
(* made.  Nothing the press could be graded with exists: a quiz_subject_   *)
(* turn, which posts the question, leaves every record as it found it.     *)
(***************************************************************************)
QuizPress(kind) ==
    /\ update # <<>>
    /\ handler = "handle_callback"
    /\ Len(update[1].data) = 3
    /\ update[1].data[1] = "quiz"
    /\ update[1].data[2] = kind

C25_OtherUsersUntouched ==
    \A i \in 1..Len(store_calls) :
        \A v \in Users \ {store_calls[i].user} :
            /\ StoreAfter(i)[v] = store_calls[i].before[v]
            /\ Record(StoreAfter(i), v).subjects_studied
                  = Record(store_calls[i].before, v).subjects_studied
            /\ Record(StoreAfter(i), v).preferences
                  = Record(store_calls[i].before, v).preferences

\* both records were created in this run, and a subject was recorded for
\* one of them only
C25_Witness ==
    /\ Len(store_calls) = 2
    /\ store_calls[1].before = [u \in Users |-> <<>>]
    /\ store_calls[1].op = "get_user_data"
    /\ store_calls[1].user = "u2"
    /\ store_calls[2].op = "update_user_stats"
    /\ store_calls[2].user = "u1"
    /\ store_calls[2].subject = <<"Math">>
    /\ user_data["u1"][1].subjects_studied = {"Math"}
    /\ user_data["u2"][1].subjects_studied = {}

(***************************************************************************)
(* C23: however the handler tasks are interleaved at their awaits, every   *)
(* access of the store is applied whole to the store as the access before  *)
(* it left it and leaves the record the access computed: no update is     *)
(* lost or half applied, also when two tasks of the same user are in       *)
(* flight.  The last difficulty set and the last activity recorded for a   *)
(* user are the ones the store holds.                                      *)
(***************************************************************************)
\* the store after the access c, applied to the store c found
Effect(c) ==
    CASE c.op = "get_user_data" -> get_user_data(c.before, c.user)
      [] c.op = "update_user_stats" ->
            update_user_stats(c.before, c.user, <<>>, <<>>, c.now[1]).store
      [] c.op = "set_difficulty" ->
            [c.before EXCEPT ![c.user][1].preferences.difficulty = c.value[1]]

\* the accesses of kind op made for user u, in their order
AccessesOf(u, op) == SelectSeq(store_calls, LAMBDA c : c.user = u /\ c.op = op)

C23_StoreAccessesAtomic ==
    tasks # <<>> =>
        /\ store_calls = <<>> => user_data = [u \in Users |-> <<>>]
        /\ store_calls # <<>> => user_data = Effect(store_calls[Len(store_calls)])
        /\ \A i \in 1..Len(store_calls) :
              /\ store_calls[i].before =
                    IF i = 1 THEN [u \in Users |-> <<>>]
                    ELSE Effect(store_calls[i - 1])
              /\ store_calls[i].data
                    = Effect(store_calls[i])[store_calls[i].user][1]
        /\ \A u \in Users :
              LET sets == AccessesOf(u, "set_difficulty")
                  stats == AccessesOf(u, "update_user_stats")
              IN  /\ sets # <<>> =>
                        user_data[u][1].preferences.difficulty
                            = sets[Len(sets)].value[1]
                  /\ stats # <<>> =>
                        user_data[u][1].last_activity = stats[Len(stats)].now

\* a voice task and a button press of the same user are both in flight:
\* the press set the difficulty and awaits its edit, then the voice task
\* recorded the activity
C23_Witness ==
    /\ tasks # <<>>
    /\ tasks[1].handler = "handle_callback"
    /\ tasks[1].pc = "edit_message_text"
    /\ tasks[2].handler = "handle_voice"
    /\ tasks[2].user = tasks[1].user
    /\ Len(store_calls) = 3
    /\ store_calls[2].op = "set_difficulty"
    /\ store_calls[2].task = 1
    /\ store_calls[3].op = "update_user_stats"
    /\ store_calls[3].task = 2
    /\ user_data[tasks[1].user][1].preferences.difficulty = "hard"
    /\ user_data[tasks[1].user][1].last_activity # <<>>

====
